---- MODULE Spec2Model ----
(***************************************************************************)
(* A model of bot.py: the rule table built by the registration decorators, *)
(* the regular-expression matching of incoming lines, the three handler    *)
(* factories with their response producers, and the read-dispatch-write    *)
(* loop of amain.                                                          *)
(*                                                                         *)
(* Spec is the program as bot.py runs it.  SpecRegister is the import of   *)
(* the module, with any registration calls; SpecSilent is the loop over a  *)
(* table that also holds a rule whose response is None.                    *)
(*                                                                         *)
(* Text is a sequence of one-character strings.  Bytes on the transport    *)
(* are the same one-character strings for ASCII, and the three symbols     *)
(* xC3, xA9 and xFF for bytes above 0x7F.                                  *)
(***************************************************************************)
EXTENDS Integers, Sequences, FiniteSets, TLC

\* ------------------------------------------------------------------ text

CR == "\r"
LF == "\n"
CRLF == <<CR, LF>>

xC3 == "0xC3"
xA9 == "0xA9"
xFF == "0xFF"
Eacute == "U+00E9"

StartsWith(s, pos, lit) ==
    /\ pos + Len(lit) - 1 <= Len(s)
    /\ \A i \in 1..Len(lit) : s[pos + i - 1] = lit[i]

EndsWith(s, lit) ==
    /\ Len(lit) <= Len(s)
    /\ StartsWith(s, Len(s) - Len(lit) + 1, lit)

Contains(s, lit) == \E p \in 1..(Len(s) + 1) : StartsWith(s, p, lit)

\* bytes.decode('UTF-8', errors='backslashreplace')
BackslashEscape(b) ==
    IF b = xC3 THEN <<"\\", "x", "c", "3">>
    ELSE IF b = xA9 THEN <<"\\", "x", "a", "9">>
    ELSE <<"\\", "x", "f", "f">>

RECURSIVE decode(_)
decode(data) ==
    IF data = <<>> THEN <<>>
    ELSE IF Head(data) = xC3 /\ Len(data) >= 2 /\ data[2] = xA9
         THEN <<Eacute>> \o decode(Tail(Tail(data)))
    ELSE IF Head(data) \in {xC3, xA9, xFF}
         THEN BackslashEscape(Head(data)) \o decode(Tail(data))
    ELSE <<Head(data)>> \o decode(Tail(data))

\* str.encode()
RECURSIVE encode(_)
encode(s) ==
    IF s = <<>> THEN <<>>
    ELSE IF Head(s) = Eacute THEN <<xC3, xA9>> \o encode(Tail(s))
    ELSE <<Head(s)>> \o encode(Tail(s))

\* ------------------------------------------------------------ regex

\* A compiled pattern is a sequence of tokens:
\*   bol                  ^
\*   lit s                the literal text s
\*   rep not min          a greedy repetition, at least min times, of one
\*                        character outside the set not ('.' is [^\n])
\*   open g / close g     the start and the end of group g
\*   eol                  $ : the end of the text, or just before a final \n
Bol == [t |-> "bol"]
Eol == [t |-> "eol"]
Lit(s) == [t |-> "lit", s |-> s]
Rep(not, min) == [t |-> "rep", not |-> not, min |-> min]
Open(g) == [t |-> "open", g |-> g]
Close(g) == [t |-> "close", g |-> g]
DotStar == Rep({LF}, 0)

NoMatch == [ok |-> FALSE, caps |-> <<>>]

RunLen(s, pos, not) ==
    LET stops == {p \in pos..Len(s) : s[p] \in not}
    IN  IF stops = {} THEN Len(s) - pos + 1
        ELSE (CHOOSE p \in stops : \A q \in stops : p <= q) - pos

RECURSIVE MatchAt(_, _, _, _, _)
RECURSIVE TryRep(_, _, _, _, _, _)
\* the backtracking matcher of re: the first way, in priority order, in which
\* the tokens from k on match s from position pos
MatchAt(pat, k, s, pos, caps) ==
    IF k > Len(pat) THEN [ok |-> TRUE, caps |-> caps]
    ELSE LET tok == pat[k] IN
      CASE tok.t = "bol" ->
             IF pos = 1 THEN MatchAt(pat, k + 1, s, pos, caps) ELSE NoMatch
        [] tok.t = "eol" ->
             IF pos = Len(s) + 1 \/ (pos = Len(s) /\ s[pos] = LF)
             THEN MatchAt(pat, k + 1, s, pos, caps) ELSE NoMatch
        [] tok.t = "lit" ->
             IF StartsWith(s, pos, tok.s)
             THEN MatchAt(pat, k + 1, s, pos + Len(tok.s), caps) ELSE NoMatch
        [] tok.t = "open" ->
             MatchAt(pat, k + 1, s, pos,
                     Append(caps, [g |-> tok.g, from |-> pos, to |-> pos]))
        [] tok.t = "close" ->
             MatchAt(pat, k + 1, s, pos,
                     [caps EXCEPT ![Len(caps)].to = pos])
        [] tok.t = "rep" ->
             TryRep(pat, k, s, pos, caps, RunLen(s, pos, tok.not))

TryRep(pat, k, s, pos, caps, n) ==
    IF n < pat[k].min THEN NoMatch
    ELSE LET m == MatchAt(pat, k + 1, s, pos + n, caps)
         IN  IF m.ok THEN m ELSE TryRep(pat, k, s, pos, caps, n - 1)

\* Pattern.match(s): [ok, groups], groups a sequence of [g, text]
match(pat, s) ==
    LET m == MatchAt(pat, 1, s, 1, <<>>)
    IN  [ok |-> m.ok,
         groups |-> [i \in 1..Len(m.caps) |->
                       [g |-> m.caps[i].g,
                        text |-> SubSeq(s, m.caps[i].from, m.caps[i].to - 1)]]]

\* ------------------------------------------------------------ literals

S_PING == <<"P", "I", "N", "G">>
S_PING_SP == <<"P", "I", "N", "G", " ">>
S_PONG_SP == <<"P", "O", "N", "G", " ">>
S_UPTIME == <<"!", "u", "p", "t", "i", "m", "e">>
S_PRIVMSG_HASH == <<" ", "P", "R", "I", "V", "M", "S", "G", " ", "#">>
S_SEND_PREFIX == <<"P", "R", "I", "V", "M", "S", "G", " ", "#">>
S_SP_COLON == <<" ", ":">>
S_NOT_STREAMING == <<"n", "o", "t", " ", "c", "u", "r", "r", "e", "n", "t", "l", "y", " ", "s", "t", "r", "e", "a", "m", "i", "n", "g", "!">>
S_STREAMING_FOR == <<"s", "t", "r", "e", "a", "m", "i", "n", "g", " ", "f", "o", "r", ":", " ">>
S_HOURS == <<"h", "o", "u", "r", "s">>
S_MINUTES == <<"m", "i", "n", "u", "t", "e", "s">>
S_SECONDS == <<"s", "e", "c", "o", "n", "d", "s">>
S_COMMA_SP == <<",", " ">>
S_UNHANDLED_PRE == <<"*", "*", "*", " ", "u", "n", "h", "a", "n", "d", "l", "e", "d", " ">>
S_SEE_LOGS == <<" ", "-", "-", " ", "s", "e", "e", " ", "l", "o", "g", "s">>
S_PASS_SP == <<"P", "A", "S", "S", " ">>
S_NICK_SP == <<"N", "I", "C", "K", " ">>
S_JOIN_HASH == <<"J", "O", "I", "N", " ", "#">>
S_UNHANDLED_COLON == <<"U", "N", "H", "A", "N", "D", "L", "E", "D", ":", " ">>
S_LT_SP == <<"<", " ">>
S_GT_SP == <<">", " ">>
S_TRACEBACK == <<"T", "r", "a", "c", "e", "b", "a", "c", "k", ":", " ">>
S_URL == <<"h", "e", "l", "i", "x", "/", "s", "t", "r", "e", "a", "m", "s", "?", "u", "s", "e", "r", "_", "l", "o", "g", "i", "n", "=">>
S_user == <<"u", "s", "e", "r">>
S_channel == <<"c", "h", "a", "n", "n", "e", "l">>
S_msg == <<"m", "s", "g">>

\* the names of the exceptions the model raises
KeyError == <<"K", "e", "y", "E", "r", "r", "o", "r">>
ValueError == <<"V", "a", "l", "u", "e", "E", "r", "r", "o", "r">>
IndexError == <<"I", "n", "d", "e", "x", "E", "r", "r", "o", "r">>
ClientConnectorError == <<"C", "l", "i", "e", "n", "t", "C", "o", "n", "n", "e", "c", "t", "o", "r", "E", "r", "r", "o", "r">>

\* ------------------------------------------------------ str.format, esc

Digit(d) == <<"0", "1", "2", "3", "4", "5", "6", "7", "8", "9">>[d + 1]

\* f'{n}' of a natural number
RECURSIVE IntToStr(_)
IntToStr(n) == IF n < 10 THEN <<Digit(n)>>
               ELSE IntToStr(n \div 10) \o <<Digit(n % 10)>>

\* f'{n:02}'
Pad2(n) == IF n < 10 THEN <<"0">> \o IntToStr(n) ELSE IntToStr(n)

RECURSIVE Replace(_, _, _)
\* str.replace(old, new) for a one-character old
Replace(s, old, new) ==
    IF s = <<>> THEN <<>>
    ELSE IF Head(s) = old THEN new \o Replace(Tail(s), old, new)
    ELSE <<Head(s)>> \o Replace(Tail(s), old, new)

esc(s) == Replace(Replace(s, "{", <<"{", "{">>), "}", <<"}", "}">>)

IndexOf(s, c) ==
    LET at == {p \in 1..Len(s) : s[p] = c}
    IN  IF at = {} THEN 0 ELSE CHOOSE p \in at : \A q \in at : p <= q

\* str.partition(' ')[2]
AfterFirstSpace(s) ==
    IF IndexOf(s, " ") = 0 THEN <<>> ELSE SubSeq(s, IndexOf(s, " ") + 1, Len(s))

\* the key of a keyword argument, from a replacement field's text
FieldKey(name) ==
    CASE name = S_user -> "user"
      [] name = S_channel -> "channel"
      [] name = S_msg -> "msg"
      [] OTHER -> "?"

Formatted(out) == [raised |-> <<>>, out |-> out]
FormatError(kind) == [raised |-> <<kind>>, out |-> <<>>]

RECURSIVE Format(_, _)
\* fmt.format(**params), params a function from keys to text: '{{' and '}}'
\* are the literal braces, '{key}' is params[key]; [raised, out]
Format(fmt, params) ==
    IF fmt = <<>> THEN Formatted(<<>>)
    ELSE IF Head(fmt) = "{" /\ Len(fmt) >= 2 /\ fmt[2] = "{" THEN
        LET r == Format(Tail(Tail(fmt)), params)
        IN  IF r.raised # <<>> THEN r ELSE Formatted(<<"{">> \o r.out)
    ELSE IF Head(fmt) = "}" /\ Len(fmt) >= 2 /\ fmt[2] = "}" THEN
        LET r == Format(Tail(Tail(fmt)), params)
        IN  IF r.raised # <<>> THEN r ELSE Formatted(<<"}">> \o r.out)
    ELSE IF Head(fmt) = "}" THEN FormatError(ValueError)
    ELSE IF Head(fmt) = "{" THEN
        LET close == IndexOf(fmt, "}")
            name == SubSeq(fmt, 2, close - 1)
        IN  IF close = 0 \/ IndexOf(name, "{") # 0 THEN FormatError(ValueError)
            ELSE IF name = <<>> THEN FormatError(IndexError)
            ELSE IF FieldKey(name) \notin DOMAIN params THEN FormatError(KeyError)
            ELSE LET r == Format(SubSeq(fmt, close + 1, Len(fmt)), params)
                 IN  IF r.raised # <<>> THEN r
                     ELSE Formatted(params[FieldKey(name)] \o r.out)
    ELSE LET r == Format(Tail(fmt), params)
         IN  IF r.raised # <<>> THEN r ELSE Formatted(<<Head(fmt)>> \o r.out)

\* ------------------------------------------------- module-level constants

MSG_RE == <<Bol, Lit(<<":">>), Open("1"), Rep({"!"}, 1), Close("1"), DotStar,
            Lit(S_PRIVMSG_HASH), Rep({" "}, 1), Lit(S_SP_COLON),
            Open("2"), Rep({CR}, 1), Close("2")>>

\* the template without the channel sign
PRIVMSG_NoHash == <<"P", "R", "I", "V", "M", "S", "G", " ", "{", "c", "h", "a", "n", "n", "e", "l", "}", " ", ":", "{", "m", "s", "g", "}", CR, LF>>

PRIVMSG == <<"P", "R", "I", "V", "M", "S", "G", " ", "#", "{", "c", "h", "a", "n", "n", "e", "l", "}", " ", ":", "{", "m", "s", "g", "}", CR, LF>>

SEND_MSG_RE == <<Bol, Lit(S_SEND_PREFIX), Rep({" "}, 1), Lit(S_SP_COLON),
                 Open("msg"), Rep({CR}, 1), Close("msg")>>

\* PRIVMSG.format(channel=channel, msg=m)
PrivmsgLine(channel, m) ==
    Format(PRIVMSG, [k \in {"channel", "msg"} |->
                       IF k = "channel" THEN channel ELSE m])

\* ---------------------------------------------------------- responses

\* an Optional[str] is a sequence of at most one text
Some(x) == <<x>>

Returned(r) == [raised |-> <<>>, res |-> r]
Raised(kind) == [raised |-> <<kind>>, res |-> <<>>]

Response == [cls |-> "Response"]
CmdResponse(cmd) == [cls |-> "CmdResponse", cmd |-> cmd]
MessageResponse(m, msg_fmt) ==
    [cls |-> "MessageResponse", match |-> m, msg_fmt |-> msg_fmt]
UptimeResponse == [cls |-> "UptimeResponse"]

Group(m, i) == m.groups[i].text

\* Match.groupdict(): the named groups, by name
groupdict(m) ==
    LET named == {i \in 1..Len(m.groups) :
                    m.groups[i].g \in {"user", "channel", "msg"}}
    IN  [k \in {m.groups[i].g : i \in named} |->
           (CHOOSE t \in {m.groups[i].text : i \in {j \in named : m.groups[j].g = k}} : TRUE)]

\* Response.__call__
Response_call(self, config) == Returned(<<>>)

\* CmdResponse.__call__
CmdResponse_call(self, config) == Returned(Some(self.cmd))

\* MessageResponse.__call__
MessageResponse_call(self, config) ==
    LET params == groupdict(self.match)
        body == Format(self.msg_fmt, params)
        params2 == [k \in DOMAIN params \cup {"msg"} |->
                      IF k = "msg" THEN body.out ELSE params[k]]
        line == Format(PRIVMSG, params2)
    IN  IF body.raised # <<>> THEN Raised(body.raised[1])
        ELSE IF line.raised # <<>> THEN Raised(line.raised[1])
        ELSE Returned(Some(line.out))

\* timedelta.seconds of a difference of delta whole seconds
timedelta_seconds(delta) == delta % (24 * 60 * 60)

Units == <<[n |-> 60 * 60, unit |-> S_HOURS],
           [n |-> 60, unit |-> S_MINUTES],
           [n |-> 1, unit |-> S_SECONDS]>>

RECURSIVE UptimeParts(_, _)
\* the for loop over the units: the parts, from unit i on
UptimeParts(elapsed, i) ==
    IF i > Len(Units) THEN <<>>
    ELSE (IF elapsed \div Units[i].n # 0
          THEN <<IntToStr(elapsed \div Units[i].n) \o <<" ">> \o Units[i].unit>>
          ELSE <<>>)
         \o UptimeParts(elapsed % Units[i].n, i + 1)

RECURSIVE Join(_, _)
Join(sep, parts) ==
    IF parts = <<>> THEN <<>>
    ELSE IF Len(parts) = 1 THEN parts[1]
    ELSE parts[1] \o sep \o Join(sep, Tail(parts))

\* the request UptimeResponse.__call__ makes
UptimeRequest(config) ==
    [url |-> S_URL \o config.channel, client_id |-> config.client_id]

\* UptimeResponse.__call__, for what the status service answers:
\*   [kind |-> "error", exc]     the request or the parsing raises exc
\*   [kind |-> "offline"]        'data' is empty
\*   [kind |-> "live", delta]    utcnow() - started_at is delta seconds
UptimeResponse_call(self, config, answer) ==
    IF answer.kind = "error" THEN Raised(answer.exc)
    ELSE LET m == IF answer.kind = "offline" THEN S_NOT_STREAMING
                  ELSE S_STREAMING_FOR \o
                       Join(S_COMMA_SP,
                            UptimeParts(timedelta_seconds(answer.delta), 1))
             line == PrivmsgLine(config.channel, m)
         IN  IF line.raised # <<>> THEN Raised(line.raised[1])
             ELSE Returned(Some(line.out))

\* ------------------------------------------------ rule table, handlers

RECURSIVE handlerUnanchored(_, _, _)
\* the patterns compiled without the line terminator
handlerUnanchored(table, prefixes, func) ==
    IF prefixes = <<>> THEN table
    ELSE handlerUnanchored(Append(table, [pattern |-> Head(prefixes),
                                          func |-> func]),
                           Tail(prefixes), func)

RECURSIVE handlerLastFirst(_, _, _)
\* the prefixes taken from the last to the first
handlerLastFirst(table, prefixes, func) ==
    IF prefixes = <<>> THEN table
    ELSE handlerLastFirst(Append(table,
                                 [pattern |-> prefixes[Len(prefixes)]
                                              \o <<Lit(CRLF), Eol>>,
                                  func |-> func]),
                          SubSeq(prefixes, 1, Len(prefixes) - 1), func)

RECURSIVE handler(_, _, _)
\* @handler(*prefixes)(func) applied to the table HANDLERS
handler(table, prefixes, func) ==
    IF prefixes = <<>> THEN table
    ELSE handler(Append(table, [pattern |-> Head(prefixes) \o <<Lit(CRLF), Eol>>,
                                func |-> func]),
                 Tail(prefixes), func)

\* the pattern handle_message builds for one message prefix
MessagePattern(message_prefix) ==
    <<Bol, Lit(<<":">>), Open("user"), Rep({"!"}, 1), Close("user"), DotStar,
      Lit(S_PRIVMSG_HASH), Open("channel"), Rep({" "}, 1), Close("channel"),
      Lit(S_SP_COLON), Open("msg"), Lit(message_prefix), DotStar, Close("msg")>>

\* @handle_message(*message_prefixes)(func)
handle_message(table, message_prefixes, func) ==
    handler(table,
            [i \in 1..Len(message_prefixes) |-> MessagePattern(message_prefixes[i])],
            func)

\* the payload captured after a colon
PingPatternColon ==
    <<Bol, Lit(S_PING_SP \o <<":">>), Open("1"), DotStar, Close("1")>>

PingPattern == <<Bol, Lit(S_PING_SP), Open("1"), DotStar, Close("1")>>

\* the reply ended by a bare line feed
pongBareLF(m) == CmdResponse(S_PONG_SP \o Group(m, 1) \o <<LF>>)

pong(m) == CmdResponse(S_PONG_SP \o Group(m, 1) \o CRLF)

cmd_uptime(m) == UptimeResponse

msg_ping(m) ==
    LET rest == AfterFirstSpace(Group(m, 3))
    IN  MessageResponse(m, S_PONG_SP \o esc(rest))

\* a factory that returns the base Response, whose __call__ returns None;
\* bot.py registers none, a module that imports it can
silent(m) == Response

\* the table after the module is imported
Registered ==
    handle_message(
        handle_message(
            handler(<<>>, <<PingPattern>>, "pong"),
            <<S_UPTIME>>, "cmd_uptime"),
        <<S_PING>>, "msg_ping")

\* handler(match), for the registered function named func
Invoke(func, m) ==
    CASE func = "pong" -> pong(m)
      [] func = "cmd_uptime" -> cmd_uptime(m)
      [] func = "msg_ping" -> msg_ping(m)
      [] func = "silent" -> silent(m)

\* ------------------------------------------------------- diagnostics

Stderr(text) == [stream |-> "stderr", text |-> text]
Stdout(text) == [stream |-> "stdout", text |-> text]

\* dt_str(), the wall clock showing t
dt_str(t) == <<"[">> \o Pad2(t.hour) \o <<":">> \o Pad2(t.minute) \o <<"]">>

\* send(writer, m, quiet=q): what it prints and what it writes
send(m, q) ==
    [trace |-> IF q THEN <<>> ELSE <<Stderr(S_LT_SP \o m)>>,
     bytes |-> encode(m)]

\* recv(reader, quiet=q) returning d: what it prints
recv(d, q) == IF q THEN <<>> ELSE <<Stderr(S_GT_SP \o d)>>

\* the PASS line sent like the other two
PassQuietAsGiven(q) == q

\* the quiet argument of the send of the PASS line
PassQuiet(q) == TRUE

\* the identity line sent before the credential line
BootstrapNickFirst(cfg, q) ==
    <<send(S_NICK_SP \o cfg.username \o CRLF, q),
      send(S_PASS_SP \o cfg.oauth_token \o CRLF, TRUE),
      send(S_JOIN_HASH \o cfg.channel \o CRLF, q)>>

\* the three sends of amain before its loop, in order
Bootstrap(cfg, q) ==
    <<send(S_PASS_SP \o cfg.oauth_token \o CRLF, PassQuiet(q)),
      send(S_NICK_SP \o cfg.username \o CRLF, q),
      send(S_JOIN_HASH \o cfg.channel \o CRLF, q)>>

\* the log of an incoming chat message
ChatLog(m, t) ==
    LET msg_match == match(MSG_RE, m)
    IN  IF msg_match.ok
        THEN <<Stdout(dt_str(t) \o <<"<">> \o Group(msg_match, 1) \o <<">", " ">>
                      \o Group(msg_match, 2) \o <<LF>>)>>
        ELSE <<>>

\* the else branch of the for loop
UnhandledLog(m, q) == IF q THEN <<>> ELSE <<Stdout(S_UNHANDLED_COLON \o m)>>

\* --------------------------------------------------------- the loop

RECURSIVE ScanNoBreak(_, _, _)
\* the for loop without its break
ScanNoBreak(table, m, i) ==
    IF i > Len(table) THEN <<>>
    ELSE IF match(table[i].pattern, m).ok
         THEN <<i>> \o ScanNoBreak(table, m, i + 1)
    ELSE ScanNoBreak(table, m, i + 1)

RECURSIVE Scan(_, _, _)
\* the for loop over HANDLERS from rule i on: the rules whose handler is
\* invoked for the line m
Scan(table, m, i) ==
    IF i > Len(table) THEN <<>>
    ELSE IF match(table[i].pattern, m).ok THEN <<i>>
    ELSE Scan(table, m, i + 1)

\* the fallback without the line terminator of PRIVMSG
FallbackUnterminated(cfg, kind) ==
    S_SEND_PREFIX \o cfg.channel \o S_SP_COLON
    \o S_UNHANDLED_PRE \o kind \o S_SEE_LOGS

\* the except clause: the response that replaces a raised exception
Fallback(cfg, kind) ==
    PrivmsgLine(cfg.channel, S_UNHANDLED_PRE \o kind \o S_SEE_LOGS).out

\* the send under the test of send_match
RespondEchoedOnly(cfg, q, t, r) ==
    LET res == IF r.raised # <<>> THEN Some(Fallback(cfg, r.raised[1]))
               ELSE r.res
        tb == IF r.raised # <<>> THEN <<Stderr(S_TRACEBACK \o r.raised[1])>>
              ELSE <<>>
        send_match == match(SEND_MSG_RE, res[1])
        echo == <<Stdout(dt_str(t) \o <<"<">> \o cfg.username \o <<">", " ">>
                         \o Group(send_match, 1) \o <<LF>>)>>
    IN  IF res = <<>> \/ ~send_match.ok
        THEN [res |-> res, diag |-> tb, write |-> <<>>]
        ELSE [res |-> res,
              diag |-> tb \o echo \o send(res[1], q).trace,
              write |-> <<send(res[1], q).bytes>>]

\* the loop body from the except clause on, for the outcome r of
\* handler(match)(config): [res, diag, write]
Respond(cfg, q, t, r) ==
    LET res == IF r.raised # <<>> THEN Some(Fallback(cfg, r.raised[1]))
               ELSE r.res
        tb == IF r.raised # <<>> THEN <<Stderr(S_TRACEBACK \o r.raised[1])>>
              ELSE <<>>
        send_match == match(SEND_MSG_RE, res[1])
        echo == IF send_match.ok
                THEN <<Stdout(dt_str(t) \o <<"<">> \o cfg.username \o <<">", " ">>
                              \o Group(send_match, 1) \o <<LF>>)>>
                ELSE <<>>
    IN  IF res = <<>> THEN [res |-> res, diag |-> tb, write |-> <<>>]
        ELSE [res |-> res,
              diag |-> tb \o echo \o send(res[1], q).trace,
              write |-> <<send(res[1], q).bytes>>]

\* ----------------------------------------------------------- inputs

\* the number of lines the transport delivers
MaxLines == 2

ChatLine(channel, body) ==
    <<":", "a", "!", "a">> \o S_PRIVMSG_HASH \o channel \o S_SP_COLON \o body \o CRLF

B_hi == <<"h", "i">>
B_braces == S_PING_SP \o <<"{", "x", "}">>
B_nospace == S_PING \o <<"f", "o", "o", " ", "b", "a", "r">>
B_inner_ping == B_hi \o S_PRIVMSG_HASH \o <<"d">> \o S_SP_COLON \o S_PING_SP \o <<"x">>
B_ping_ping == S_PING_SP \o <<"y">> \o S_PRIVMSG_HASH \o <<"d">> \o S_SP_COLON \o S_PING_SP \o <<"z">>
B_uptime_ping == S_UPTIME \o S_PRIVMSG_HASH \o <<"d">> \o S_SP_COLON \o S_PING_SP \o <<"z">>

\* the lines readline() may return: what ends at the first \n, or, at the
\* end of the stream, what is left
Lines ==
    { S_PING_SP \o <<":", xC3, xA9, CR>> \o CRLF,
      S_PING_SP \o <<xFF>> \o CRLF,
      S_PING_SP \o <<"x", LF>>,
      <<>>,
      ChatLine(<<"c">>, B_hi),
      ChatLine(<<"c">>, B_braces),
      ChatLine(<<"c">>, B_nospace),
      ChatLine(<<"c">>, S_PING),
      ChatLine(<<"c">>, B_inner_ping),
      ChatLine(<<"c">>, B_ping_ping),
      ChatLine(<<"c">>, B_uptime_ping),
      ChatLine(<<"d">>, S_UPTIME) }

\* what the status service may answer
Deltas == {60, 3661, 90061}
Answers ==
    {[kind |-> "offline"]}
    \cup {[kind |-> "live", delta |-> d] : d \in Deltas}
    \cup {[kind |-> "error", exc |-> e] : e \in {KeyError, ClientConnectorError}}

Configs ==
    { [username |-> <<"b", "o", "t">>, channel |-> <<"c">>,
       oauth_token |-> <<"t", "1">>, client_id |-> <<"i", "1">>] }

\* the same configuration with other secrets
AltConfig(cfg) ==
    [cfg EXCEPT !.oauth_token = <<"t", "9">>, !.client_id = <<"i", "9">>]

Times == {[hour |-> 9, minute |-> 30]}

\* ------------------------------------------------------------ state

VARIABLES
    pc,         \* the await amain is suspended on, or "crashed"
    config,     \* the Config
    quiet,      \* not args.verbose
    now,        \* the wall clock
    HANDLERS,   \* the rule table
    nread,      \* the number of lines read
    data,       \* the line recv returned last
    msg,        \* data, decoded
    invoked,    \* the rules whose handler was invoked for msg
    producer,   \* the response producer being resolved, if any
    request,    \* the request to the status service in flight, if any
    answer,     \* what the status service answered for msg, if it was asked
    raised,     \* the exception the except clause caught for msg, if any
    res,        \* res, an Optional[str]
    wire,       \* the lines written to the writer
    cause,      \* for each line of wire, the number of the line read that
                \* caused it, 0 for the bootstrap lines
    flushed,    \* the number of lines of wire whose drain() returned
    diag,       \* what was printed to stderr and stdout
    shadow,     \* what the same run with AltConfig(config) prints
    inflight    \* the awaited operations that have not completed

vars == <<pc, config, quiet, now, HANDLERS, nread, data, msg, invoked,
          producer, request, answer, raised, res, wire, cause, flushed, diag, shadow,
          inflight>>

setup == <<config, quiet, now, HANDLERS>>
line == <<nread, data, msg, invoked>>

\* op started while what was awaited is still counted in flight
AwaitDetached(cur, done, op) == cur \cup {op}

\* the awaited operation done completes and amain suspends on op: what this
\* process has in flight, from what it had
Await(cur, done, op) == (cur \ {done}) \cup {op}

Init ==
    /\ pc = "connect"
    /\ config \in Configs
    /\ quiet \in BOOLEAN
    /\ now \in Times
    /\ HANDLERS = Registered
    /\ nread = 0
    /\ data = <<>>
    /\ msg = <<>>
    /\ invoked = <<>>
    /\ producer = <<>>
    /\ request = <<>>
    /\ answer = <<>>
    /\ raised = <<>>
    /\ res = <<>>
    /\ wire = <<>>
    /\ cause = <<>>
    /\ flushed = 0
    /\ diag = <<>>
    /\ shadow = <<>>
    /\ inflight = {"connect"}

\* the i-th bootstrap send, up to its drain()
BootSend(i, done) ==
    /\ wire' = Append(wire, Bootstrap(config, quiet)[i].bytes)
    /\ cause' = Append(cause, 0)
    /\ diag' = diag \o Bootstrap(config, quiet)[i].trace
    /\ shadow' = shadow \o Bootstrap(AltConfig(config), quiet)[i].trace
    /\ inflight' = Await(inflight, done, "write")

\* asyncio.open_connection returns
Connect ==
    /\ pc = "connect"
    /\ pc' = "pass"
    /\ BootSend(1, "connect")
    /\ UNCHANGED <<setup, line, producer, request, answer, raised, res, flushed>>

\* the drain() of the PASS line returns
SentPass ==
    /\ pc = "pass"
    /\ pc' = "nick"
    /\ flushed' = flushed + 1
    /\ BootSend(2, "write")
    /\ UNCHANGED <<setup, line, producer, request, answer, raised, res>>

\* the drain() of the NICK line returns
SentNick ==
    /\ pc = "nick"
    /\ pc' = "join"
    /\ flushed' = flushed + 1
    /\ BootSend(3, "write")
    /\ UNCHANGED <<setup, line, producer, request, answer, raised, res>>

\* the drain() of the JOIN line returns: the loop starts
SentJoin ==
    /\ pc = "join"
    /\ pc' = "recv"
    /\ flushed' = flushed + 1
    /\ inflight' = Await(inflight, "write", "read")
    /\ UNCHANGED <<setup, line, producer, request, answer, raised, res, wire, cause,
                   diag, shadow>>

\* the fallback written in the except clause and again after it
RespondingResent(n, done, r, ra, pre, preAlt) ==
    LET out == Respond(config, quiet, now, r)
        outAlt == Respond(AltConfig(config), quiet, now, ra)
    IN  /\ raised' = r.raised
        /\ res' = out.res
        /\ diag' = diag \o pre \o out.diag
        /\ shadow' = shadow \o preAlt \o outAlt.diag
        /\ producer' = <<>>
        /\ request' = <<>>
        /\ IF out.write = <<>>
           THEN /\ pc' = "recv"
                /\ inflight' = Await(inflight, done, "read")
                /\ UNCHANGED <<wire, cause>>
           ELSE /\ pc' = "drain"
                /\ inflight' = Await(inflight, done, "write")
                /\ wire' = IF r.raised # <<>>
                           THEN wire \o <<out.write[1], out.write[1]>>
                           ELSE Append(wire, out.write[1])
                /\ cause' = IF r.raised # <<>> THEN cause \o <<n, n>>
                            ELSE Append(cause, n)

\* the loop body from the except clause on, resumed by the completion of
\* done, for line number n, the outcome r
\* of the response producer and ra of the same producer under AltConfig(config);
\* pre and preAlt are what the body printed before
Responding(n, done, r, ra, pre, preAlt) ==
    LET out == Respond(config, quiet, now, r)
        outAlt == Respond(AltConfig(config), quiet, now, ra)
    IN  /\ raised' = r.raised
        /\ res' = out.res
        /\ diag' = diag \o pre \o out.diag
        /\ shadow' = shadow \o preAlt \o outAlt.diag
        /\ producer' = <<>>
        /\ request' = <<>>
        /\ IF out.write = <<>>
           THEN /\ pc' = "recv"
                /\ inflight' = Await(inflight, done, "read")
                /\ UNCHANGED <<wire, cause>>
           ELSE /\ pc' = "drain"
                /\ inflight' = Await(inflight, done, "write")
                /\ wire' = Append(wire, out.write[1])
                /\ cause' = Append(cause, n)

\* handler(match)(config) for a producer that does not suspend
Call(p, cfg) ==
    CASE p.cls = "CmdResponse" -> CmdResponse_call(p, cfg)
      [] p.cls = "MessageResponse" -> MessageResponse_call(p, cfg)
      [] OTHER -> Response_call(p, cfg)

\* readline() returns d: the loop body up to its next await
RecvLine(d) ==
    /\ pc = "recv"
    /\ answer' = <<>>
    /\ LET m == decode(d)
           pre == recv(d, quiet) \o ChatLog(m, now)
           hit == Scan(HANDLERS, m, 1)
       IN  /\ nread' = nread + 1
           /\ data' = d
           /\ msg' = m
           /\ invoked' = hit
           /\ IF hit = <<>>
              THEN /\ pc' = "recv"
                   /\ diag' = diag \o pre \o UnhandledLog(m, quiet)
                   /\ shadow' = shadow \o pre \o UnhandledLog(m, quiet)
                   /\ inflight' = Await(inflight, "read", "read")
                   /\ raised' = <<>>
                   /\ res' = <<>>
                   /\ UNCHANGED <<producer, request, wire, cause>>
              ELSE LET p == Invoke(HANDLERS[hit[1]].func,
                                   match(HANDLERS[hit[1]].pattern, m))
                   IN  IF p.cls = "UptimeResponse"
                       THEN /\ pc' = "http"
                            /\ producer' = <<p>>
                            /\ request' = <<UptimeRequest(config)>>
                            /\ inflight' = Await(inflight, "read", "http")
                            /\ diag' = diag \o pre
                            /\ shadow' = shadow \o pre
                            /\ raised' = <<>>
                            /\ res' = <<>>
                            /\ UNCHANGED <<wire, cause>>
                       ELSE Responding(nread + 1, "read", Call(p, config),
                                       Call(p, AltConfig(config)), pre, pre)
    /\ UNCHANGED <<setup, flushed>>

\* the loop left when readline() returns no data
RecvUntilEof ==
    /\ nread < MaxLines
    /\ \E d \in Lines :
         IF d # <<>> THEN RecvLine(d)
         ELSE /\ pc = "recv"
              /\ pc' = "crashed"
              /\ nread' = nread + 1
              /\ data' = d
              /\ msg' = decode(d)
              /\ invoked' = <<>>
              /\ answer' = <<>>
              /\ raised' = <<>>
              /\ res' = <<>>
              /\ diag' = diag \o recv(d, quiet)
              /\ shadow' = shadow \o recv(d, quiet)
              /\ inflight' = {}
              /\ UNCHANGED <<setup, producer, request, wire, cause, flushed>>

\* the transport delivers one of Lines
Recv ==
    /\ nread < MaxLines
    /\ \E d \in Lines : RecvLine(d)

\* the status service answers, or the request fails
HttpDone ==
    /\ pc = "http"
    /\ \E a \in Answers :
         /\ answer' = <<a>>
         /\ Responding(nread, "http", UptimeResponse_call(producer[1], config, a),
                       UptimeResponse_call(producer[1], AltConfig(config), a),
                       <<>>, <<>>)
    /\ UNCHANGED <<setup, line, flushed>>

\* the rule that answered is dropped from the table once its response is
\* flushed
DrainedForgetting ==
    /\ pc = "drain"
    /\ pc' = "recv"
    /\ flushed' = flushed + 1
    /\ inflight' = Await(inflight, "write", "read")
    /\ HANDLERS' = [i \in 1..(Len(HANDLERS) - 1) |->
                      IF i < invoked[1] THEN HANDLERS[i] ELSE HANDLERS[i + 1]]
    /\ UNCHANGED <<config, quiet, now, line, producer, request, answer, raised,
                   res, wire, cause, diag, shadow>>

\* the drain() of a response returns
Drained ==
    /\ pc = "drain"
    /\ pc' = "recv"
    /\ flushed' = flushed + 1
    /\ inflight' = Await(inflight, "write", "read")
    /\ UNCHANGED <<setup, line, producer, request, answer, raised, res, wire, cause,
                   diag, shadow>>

\* a drain() that raises is caught like a handler's exception, and the loop
\* goes on to read
TransportFailContained ==
    /\ pc \in {"connect", "pass", "nick", "join", "recv", "drain"}
    /\ pc' = IF pc = "drain" THEN "recv" ELSE "crashed"
    /\ inflight' = IF pc = "drain" THEN {"read"} ELSE {}
    /\ UNCHANGED <<setup, line, producer, request, answer, raised, res, wire, cause,
                   flushed, diag, shadow>>

\* open_connection, readline() or drain() raises: amain ends
TransportFail ==
    /\ pc \in {"connect", "pass", "nick", "join", "recv", "drain"}
    /\ pc' = "crashed"
    /\ inflight' = {}
    /\ UNCHANGED <<setup, line, producer, request, answer, raised, res, wire, cause,
                   flushed, diag, shadow>>

Next ==
    \/ Connect
    \/ SentPass
    \/ SentNick
    \/ SentJoin
    \/ Recv
    \/ HttpDone
    \/ Drained
    \/ TransportFail

Spec == Init /\ [][Next]_vars

\* ------------------------------------- a table with a silent rule

\* '^NOP' registered with the factory silent, after the rules of bot.py
SilentPattern == <<Bol, Lit(<<"N", "O", "P">>)>>
WithSilent == handler(Registered, <<SilentPattern>>, "silent")

SilentLines ==
    { <<"N", "O", "P">> \o CRLF,
      S_PING_SP \o <<"x">> \o CRLF,
      ChatLine(<<"c">>, B_hi),
      ChatLine(<<"c">>, S_PING_SP \o <<"x", CR, "y">>),
      ChatLine(<<"d">>, S_UPTIME) }

InitSilent ==
    /\ pc = "connect"
    /\ config \in Configs
    /\ quiet \in BOOLEAN
    /\ now \in Times
    /\ HANDLERS = WithSilent
    /\ nread = 0
    /\ data = <<>>
    /\ msg = <<>>
    /\ invoked = <<>>
    /\ producer = <<>>
    /\ request = <<>>
    /\ answer = <<>>
    /\ raised = <<>>
    /\ res = <<>>
    /\ wire = <<>>
    /\ cause = <<>>
    /\ flushed = 0
    /\ diag = <<>>
    /\ shadow = <<>>
    /\ inflight = {"connect"}

\* the transport delivers one of SilentLines
RecvSilent ==
    /\ nread < MaxLines
    /\ \E d \in SilentLines : RecvLine(d)

NextSilent ==
    \/ Connect
    \/ SentPass
    \/ SentNick
    \/ SentJoin
    \/ RecvSilent
    \/ HttpDone
    \/ Drained
    \/ TransportFail

SpecSilent == InitSilent /\ [][NextSilent]_vars

\* ------------------------------------------ the registration calls

\* the number of rules registered
MaxRules == 3

\* the arguments of the registration calls
Funcs == {"pong", "cmd_uptime", "msg_ping"}
PrefixArgs ==
    {<<>>} \cup {<<a>> : a \in {PingPattern, SilentPattern}}
    \cup {<<a, b>> : a \in {PingPattern, SilentPattern},
                     b \in {PingPattern, SilentPattern}}
MessagePrefixArgs ==
    {<<>>} \cup {<<a>> : a \in {S_UPTIME, S_PING}}
    \cup {<<a, b>> : a \in {S_UPTIME, S_PING}, b \in {S_UPTIME, S_PING}}

\* the module is being imported: HANDLERS = []
InitRegister ==
    /\ pc = "import"
    /\ config \in Configs
    /\ quiet \in BOOLEAN
    /\ now \in Times
    /\ HANDLERS = <<>>
    /\ nread = 0
    /\ data = <<>>
    /\ msg = <<>>
    /\ invoked = <<>>
    /\ producer = <<>>
    /\ request = <<>>
    /\ answer = <<>>
    /\ raised = <<>>
    /\ res = <<>>
    /\ wire = <<>>
    /\ cause = <<>>
    /\ flushed = 0
    /\ diag = <<>>
    /\ shadow = <<>>
    /\ inflight = {}

\* @handler(*prefixes) applied to func
Register(prefixes, func) ==
    /\ pc = "import"
    /\ Len(HANDLERS) + Len(prefixes) <= MaxRules
    /\ HANDLERS' = handler(HANDLERS, prefixes, func)
    /\ UNCHANGED <<pc, config, quiet, now, line, producer, request, answer,
                   raised, res, wire, cause, flushed, diag, shadow, inflight>>

\* @handle_message(*message_prefixes) applied to func
RegisterMessage(message_prefixes, func) ==
    /\ pc = "import"
    /\ Len(HANDLERS) + Len(message_prefixes) <= MaxRules
    /\ HANDLERS' = handle_message(HANDLERS, message_prefixes, func)
    /\ UNCHANGED <<pc, config, quiet, now, line, producer, request, answer,
                   raised, res, wire, cause, flushed, diag, shadow, inflight>>

NextRegister ==
    \/ \E prefixes \in PrefixArgs, func \in Funcs : Register(prefixes, func)
    \/ \E message_prefixes \in MessagePrefixArgs, func \in Funcs :
         RegisterMessage(message_prefixes, func)

SpecRegister == InitRegister /\ [][NextRegister]_vars

\* ------------------------------------------------------------ claims

Last(s) == s[Len(s)]

\* the rules whose pattern matches the line m
Hits(m) == {i \in 1..Len(HANDLERS) : match(HANDLERS[i].pattern, m).ok}

\* the lines written in response to the line read last
Replies == {i \in 1..Len(wire) : cause[i] = nread /\ nread > 0}

\* C1: for every line read, the one rule whose handler is invoked is the
\* first rule, in the order pong, cmd_uptime, msg_ping, whose pattern matches
\* the line; no later rule's handler is invoked
C1_FirstMatchWins ==
    /\ [i \in 1..Len(HANDLERS) |-> HANDLERS[i].func]
         = <<"pong", "cmd_uptime", "msg_ping">>
    /\ nread > 0 =>
         LET hits == Hits(msg)
         IN  IF hits = {} THEN invoked = <<>>
             ELSE /\ Len(invoked) = 1
                  /\ invoked[1] \in hits
                  /\ \A i \in hits : invoked[1] <= i

\* a line that rules 2 and 3 both match was dispatched to rule 2
C1_Witness ==
    /\ nread > 0
    /\ Hits(msg) = {2, 3}
    /\ invoked = <<2>>
    /\ pc = "http"

\* the fallback line for the exception kind, to the configured channel
FallbackLine(kind) ==
    S_SEND_PREFIX \o config.channel \o S_SP_COLON \o S_UNHANDLED_PRE
    \o kind \o S_SEE_LOGS \o CRLF

\* C2: when the handler selected for a line raises, the fallback line
\* 'PRIVMSG #<configured channel> :*** unhandled <kind> -- see logs\r\n' is
\* what is written for that line, and once its write is flushed the loop
\* reads and dispatches the next line
C2_HandlerErrorContained ==
    [][ /\ raised' # <<>> =>
             /\ res' = <<FallbackLine(raised'[1])>>
             /\ Replies' # {}
             /\ \A i \in Replies' : wire'[i] = encode(FallbackLine(raised'[1]))
             /\ pc' \in {"drain", "recv", "crashed"}
        /\ (raised # <<>> /\ pc = "drain" /\ flushed' = flushed + 1) =>
             pc' = "recv" /\ wire' = wire
        /\ (raised # <<>> /\ pc = "recv" /\ nread' = nread + 1) =>
             /\ data' \in Lines
             /\ Hits(msg') # {} => invoked' # <<>>
      ]_vars

\* the handler of the first line raised KeyError, the fallback was written,
\* and the second line was read and answered after it
C2_Witness ==
    /\ nread = 2
    /\ Len(wire) = 5
    /\ cause = <<0, 0, 0, 1, 2>>
    /\ wire[4] = encode(FallbackLine(KeyError))
    /\ config.channel = <<"c">>
    /\ raised = <<>>
    /\ data = ChatLine(<<"c">>, B_braces)

\* a line no rule can match: it does not end with the line terminator, or it
\* neither starts with 'PING ' nor holds a chat body that starts with
\* '!uptime' or 'PING'
Unmatchable(m) ==
    \/ ~EndsWith(m, CRLF)
    \/ /\ ~StartsWith(m, 1, S_PING_SP)
       /\ ~Contains(m, S_SP_COLON \o S_UPTIME)
       /\ ~Contains(m, S_SP_COLON \o S_PING)

\* C3: a line that matches no registered rule causes no write, and the loop
\* goes on to read the next line
C3_NoMatchNoWrite ==
    (nread > 0 /\ (Hits(msg) = {} \/ Unmatchable(msg))) =>
        /\ Replies = {}
        /\ invoked = <<>>
        /\ res = <<>>
        /\ pc \in {"recv", "crashed"}

\* two unmatched lines were read, the second one a chat message, and only the
\* bootstrap lines are on the wire
C3_Witness ==
    /\ nread = 2
    /\ Hits(msg) = {}
    /\ data = ChatLine(<<"c">>, B_hi)
    /\ Len(wire) = 3
    /\ pc = "recv"

\* C4: lines are processed one at a time: at most one of read, write and
\* status request is in flight; a read is in flight only when no producer is
\* pending and every write is flushed; the responses are on the wire in the
\* order of the lines that caused them, at most one per line
C4_Sequential ==
    /\ Cardinality(inflight) <= 1
    /\ inflight \subseteq {"connect", "read", "write", "http"}
    /\ "read" \in inflight => pc = "recv" /\ producer = <<>> /\ flushed = Len(wire)
    /\ "http" \in inflight => pc = "http" /\ producer # <<>> /\ flushed = Len(wire)
    /\ "write" \in inflight => producer = <<>> /\ flushed = Len(wire) - 1
    /\ \A i \in 1..Len(wire) : \A j \in 1..Len(wire) :
         (i < j) => /\ cause[i] <= cause[j]
                    /\ cause[j] > 0 => cause[i] < cause[j]
    /\ \A i \in 1..Len(wire) : cause[i] <= nread

\* the status request for the second line is in flight after the response to
\* the first line was flushed
C4_Witness ==
    /\ pc = "http"
    /\ inflight = {"http"}
    /\ nread = 2
    /\ cause = <<0, 0, 0, 1>>
    /\ flushed = 4

\* C5: exactly the three lines 'PASS <token>\r\n', 'NICK <name>\r\n' and
\* 'JOIN #<channel>\r\n' are written and flushed, in this order, before the
\* first line is read, and none of them is written again afterwards
C5_BootstrapOnce ==
    LET boot == <<encode(S_PASS_SP \o config.oauth_token \o CRLF),
                  encode(S_NICK_SP \o config.username \o CRLF),
                  encode(S_JOIN_HASH \o config.channel \o CRLF)>>
    IN  /\ \A i \in 1..Len(wire) : (i <= 3) => wire[i] = boot[i] /\ cause[i] = 0
        /\ \A i \in 1..Len(wire) :
             (i > 3) => /\ wire[i] \notin {boot[1], boot[2], boot[3]}
                        /\ cause[i] > 0
        /\ (nread > 0 \/ pc \in {"recv", "http", "drain"}) =>
             Len(wire) >= 3 /\ flushed >= 3

\* two lines were read and answered after the three bootstrap lines
C5_Witness ==
    /\ nread = 2
    /\ Len(wire) = 5
    /\ flushed = 5

\* C6: whatever the verbose flag, the diagnostic output is the same as that
\* of the run with another credential token and client identifier, and no
\* entry of it contains the token or the client identifier
C6_SecretsNotPrinted ==
    /\ diag = shadow
    /\ \A i \in 1..Len(diag) :
         /\ ~Contains(diag[i].text, config.oauth_token)
         /\ ~Contains(diag[i].text, config.client_id)

\* a verbose run printed the wire trace of the bootstrap, of a line read and
\* of a fallback response with its traceback, after the status service was
\* asked with the client identifier
C6_Witness ==
    /\ ~quiet
    /\ raised # <<>>
    /\ pc = "drain"
    /\ Len(diag) >= 6
    /\ \E i \in 1..Len(diag) : StartsWith(diag[i].text, 1, S_LT_SP \o S_NICK_SP)

\* C7: every line written in response to a line read ends with \r\n and
\* holds no other line feed
C7_OneProtocolLine ==
    \A i \in 1..Len(wire) :
        (cause[i] > 0) =>
            /\ EndsWith(wire[i], CRLF)
            /\ \A k \in 1..(Len(wire[i]) - 1) : wire[i][k] # LF

\* a reply to a PING whose payload ends with a carriage return, and a chat
\* reply after it
C7_Witness ==
    /\ Len(wire) = 5
    /\ wire[4] = S_PONG_SP \o <<":", xC3, xA9, CR>> \o CRLF
    /\ StartsWith(wire[5], 1, S_SEND_PREFIX)

\* the bytes 'PING ' + p + '\r\n', and p
IsPingLine(d) ==
    Len(d) >= 7 /\ StartsWith(d, 1, S_PING_SP) /\ EndsWith(d, CRLF)
Payload(d) == SubSeq(d, 6, Len(d) - 2)

\* the bytes b are UTF-8
ValidUTF8(b) ==
    \A k \in 1..Len(b) :
        /\ b[k] # xFF
        /\ b[k] = xC3 => (k < Len(b) /\ b[k + 1] = xA9)
        /\ b[k] = xA9 => (k > 1 /\ b[k - 1] = xC3)

\* C8 as stated: for every payload p the line 'PING ' + p + '\r\n' is answered
\* by exactly 'PONG ' + p + '\r\n'
C8_Original ==
    (nread > 0 /\ IsPingLine(data)) =>
        /\ Replies # {}
        /\ \A i \in Replies : wire[i] = S_PONG_SP \o Payload(data) \o CRLF

\* C8, amended: for every payload p that is valid UTF-8 the line
\* 'PING ' + p + '\r\n' is answered by exactly 'PONG ' + p + '\r\n', with no
\* status request and no pending producer; the byte 0xFF, which is not UTF-8,
\* is answered by its escape \xff
C8_PongEchoesPayload ==
    (nread > 0 /\ IsPingLine(data)) =>
        /\ Cardinality(Replies) = 1
        /\ \A i \in Replies :
             /\ ValidUTF8(Payload(data)) =>
                  wire[i] = S_PONG_SP \o Payload(data) \o CRLF
             /\ Payload(data) = <<xFF>> =>
                  wire[i] = S_PONG_SP \o <<"\\", "x", "f", "f">> \o CRLF
        /\ invoked = <<1>>
        /\ request = <<>> /\ answer = <<>> /\ producer = <<>> /\ raised = <<>>
        /\ pc \in {"drain", "recv", "crashed"}

\* a PING with a two-byte character and a carriage return in its payload was
\* answered by the same bytes
C8_Witness ==
    /\ nread > 0
    /\ data = S_PING_SP \o <<":", xC3, xA9, CR>> \o CRLF
    /\ Replies # {}
    /\ Last(wire) = S_PONG_SP \o <<":", xC3, xA9, CR>> \o CRLF
    /\ pc = "drain"

FirstAt(s, lit) ==
    LET at == {p \in 1..Len(s) : StartsWith(s, p, lit)}
    IN  IF at = {} THEN 0 ELSE CHOOSE p \in at : \A q \in at : p <= q

\* the chat line m read as ':<sender>!... PRIVMSG #<channel> :<body>\r\n', its
\* PRIVMSG command being the first ' PRIVMSG #' of the line
ChatTarget(m) ==
    LET p == FirstAt(m, S_PRIVMSG_HASH)
        after == SubSeq(m, p + Len(S_PRIVMSG_HASH), Len(m))
        sp == IndexOf(after, " ")
    IN  IF /\ p > 0
           /\ m[1] = ":"
           /\ IndexOf(SubSeq(m, 1, p), "!") > 2
           /\ sp > 1
           /\ StartsWith(after, sp, S_SP_COLON)
           /\ EndsWith(m, CRLF)
        THEN [ok |-> TRUE, channel |-> SubSeq(after, 1, sp - 1),
              body |-> SubSeq(after, sp + 2, Len(after) - 2)]
        ELSE [ok |-> FALSE, channel |-> <<>>, body |-> <<>>]

\* C9 as stated: every chat line ':<sender>!... PRIVMSG #<chan> :PING <rest>\r\n'
\* is answered, without an exception, by exactly
\* 'PRIVMSG #<chan> :PONG <rest>\r\n'
C9_Original ==
    (nread > 0 /\ ChatTarget(msg).ok
               /\ StartsWith(ChatTarget(msg).body, 1, S_PING_SP)) =>
        /\ raised = <<>>
        /\ Replies # {}
        /\ \A i \in Replies :
             wire[i] = encode(S_SEND_PREFIX \o ChatTarget(msg).channel
                              \o S_SP_COLON \o S_PONG_SP
                              \o SubSeq(ChatTarget(msg).body, 6,
                                        Len(ChatTarget(msg).body))
                              \o CRLF)

\* the parts of the uptime reply for e elapsed seconds, as C10 states them
ElapsedParts(e) ==
    (IF e \div 3600 # 0
     THEN <<IntToStr(e \div 3600) \o <<" ">> \o S_HOURS>> ELSE <<>>)
    \o (IF (e % 3600) \div 60 # 0
        THEN <<IntToStr((e % 3600) \div 60) \o <<" ">> \o S_MINUTES>> ELSE <<>>)
    \o (IF e % 60 # 0
        THEN <<IntToStr(e % 60) \o <<" ">> \o S_SECONDS>> ELSE <<>>)

\* C10 as stated: an empty stream list is answered by 'not currently
\* streaming!', a record started e seconds ago by 'streaming for: ' and the
\* non-zero parts e div 3600 hours, (e mod 3600) div 60 minutes, e mod 60
\* seconds, comma-joined
C10_Original ==
    (answer # <<>> /\ answer[1].kind # "error") =>
        /\ Replies # {}
        /\ \A i \in Replies :
             wire[i] = encode(S_SEND_PREFIX \o config.channel \o S_SP_COLON
                              \o (IF answer[1].kind = "offline"
                                  THEN S_NOT_STREAMING
                                  ELSE S_STREAMING_FOR
                                       \o Join(S_COMMA_SP,
                                               ElapsedParts(answer[1].delta)))
                              \o CRLF)

\* the number the decimal digits s write
RECURSIVE StrToInt(_)
StrToInt(s) ==
    IF s = <<>> THEN 0
    ELSE 10 * StrToInt(SubSeq(s, 1, Len(s) - 1))
         + (CHOOSE d \in 0..9 : Digit(d) = Last(s))

\* the seconds a part of the uptime reply stands for
PartSeconds(part) ==
    LET sp == IndexOf(part, " ")
        unit == SubSeq(part, sp + 1, Len(part))
        count == StrToInt(SubSeq(part, 1, sp - 1))
    IN  count * (CASE unit = S_HOURS -> 60 * 60
                   [] unit = S_MINUTES -> 60
                   [] OTHER -> 1)

\* the parts of the reply 'PRIVMSG #<channel> :streaming for: <parts>\r\n'
RECURSIVE SplitParts(_)
SplitParts(s) ==
    IF s = <<>> THEN <<>>
    ELSE LET c == FirstAt(s, S_COMMA_SP)
         IN  IF c = 0 THEN <<s>>
             ELSE <<SubSeq(s, 1, c - 1)>>
                  \o SplitParts(SubSeq(s, c + Len(S_COMMA_SP), Len(s)))

RECURSIVE SumSeconds(_)
SumSeconds(parts) ==
    IF parts = <<>> THEN 0
    ELSE PartSeconds(Head(parts)) + SumSeconds(Tail(parts))

\* the elapsed seconds the reply line w reports
ReportedSeconds(w) ==
    LET from == FirstAt(w, S_STREAMING_FOR) + Len(S_STREAMING_FOR)
    IN  SumSeconds(SplitParts(SubSeq(w, from, Len(w) - 2)))

\* C11 as stated: for a stream that started 24 hours or more ago, the hours,
\* minutes and seconds of the reply add up to the whole difference between
\* the current time and the start time, not to it modulo 86400
C11_Original ==
    (answer # <<>> /\ answer[1].kind = "live"
                   /\ answer[1].delta >= 24 * 60 * 60) =>
        /\ Replies # {}
        /\ \A i \in Replies :
             /\ Contains(wire[i], S_STREAMING_FOR)
             /\ ReportedSeconds(wire[i]) = answer[1].delta

\* C12 as stated: every response written to the transport is recognised by
\* SEND_MSG_RE
C12_Original ==
    (nread > 0 /\ Replies # {}) =>
        /\ res # <<>>
        /\ match(SEND_MSG_RE, res[1]).ok

\* C12, amended: every response written is the text of res; it is recognised
\* by SEND_MSG_RE when it comes from a chat rule or from the error fallback,
\* and it is the line 'PONG <payload>', which SEND_MSG_RE does not recognise,
\* when it comes from the rule for the server's PING
C12_ChatResponsesRecognised ==
    (nread > 0 /\ Replies # {}) =>
        /\ res # <<>>
        /\ \A i \in Replies : wire[i] = encode(res[1])
        /\ invoked # <<1>> => match(SEND_MSG_RE, res[1]).ok
        /\ invoked = <<1>> =>
             /\ StartsWith(res[1], 1, S_PONG_SP)
             /\ ~match(SEND_MSG_RE, res[1]).ok

\* the fallback for a failed status request was written and is recognised,
\* after a reply to the server's PING that is not
C12_Witness ==
    /\ nread = 2
    /\ Len(wire) = 5
    /\ StartsWith(wire[4], 1, S_PONG_SP)
    /\ raised # <<>>
    /\ match(SEND_MSG_RE, res[1]).ok
    /\ pc = "drain"

\* the loop has ended and nothing was read, written or flushed in the step
Terminated ==
    /\ pc' = "crashed"
    /\ inflight' = {}
    /\ UNCHANGED <<nread, data, wire, cause, flushed, res>>

\* C13: a step taken while the connection, a read or a write with its flush
\* is awaited either completes that operation or ends the loop, also when the
\* write is that of a fallback line; the loop ends in no other way; and once
\* it has ended no line is read or written
C13_TransportFailureFatal ==
    [][ /\ pc = "connect" => (pc' = "pass" \/ Terminated)
        /\ pc = "pass" => ((pc' = "nick" /\ flushed' = flushed + 1) \/ Terminated)
        /\ pc = "nick" => ((pc' = "join" /\ flushed' = flushed + 1) \/ Terminated)
        /\ pc = "join" => ((pc' = "recv" /\ flushed' = flushed + 1) \/ Terminated)
        /\ pc = "recv" => (nread' = nread + 1 \/ Terminated)
        /\ pc = "drain" => ((pc' = "recv" /\ flushed' = flushed + 1) \/ Terminated)
        /\ pc = "http" => pc' # "crashed"
        /\ pc = "crashed" => Terminated
      ]_vars

\* the write of a fallback line failed: the loop has ended with that line
\* not flushed
C13_Witness ==
    /\ pc = "crashed"
    /\ raised # <<>>
    /\ Len(wire) = 4
    /\ flushed = 3
    /\ inflight = {}

\* the text s has the shape 'PRIVMSG #<channel> :<body>', the channel without
\* a space and the body starting with a character other than \r
HasChatShape(s) ==
    LET after == SubSeq(s, Len(S_SEND_PREFIX) + 1, Len(s))
        sp == IndexOf(after, " ")
    IN  /\ StartsWith(s, 1, S_SEND_PREFIX)
        /\ sp > 1
        /\ StartsWith(after, sp, S_SP_COLON)
        /\ Len(after) >= sp + 2
        /\ after[sp + 2] # CR

\* the echo log entry of the response s: its body up to the first \r
EchoEntry(s) ==
    LET after == SubSeq(s, Len(S_SEND_PREFIX) + 1, Len(s))
        body == SubSeq(after, IndexOf(after, " ") + 2, Len(after))
        cr == IndexOf(body, CR)
    IN  Stdout(dt_str(now) \o <<"<">> \o config.username \o <<">", " ">>
               \o (IF cr = 0 THEN body ELSE SubSeq(body, 1, cr - 1)) \o <<LF>>)

\* C14: in the step that resolves the response of a matched line, a response
\* that is None writes nothing and logs no echo; any other response is
\* appended to the transport once, in that step, and flushed by the one step
\* that follows; the echo entry is logged in that step, once, if and only if
\* the response has the outbound chat shape, and before the trace that send
\* prints when it writes
C14_RespondingStep ==
    [][ LET new == SubSeq(diag', Len(diag) + 1, Len(diag'))
            echoes == {k \in 1..Len(new) :
                         /\ new[k].stream = "stdout"
                         /\ StartsWith(new[k].text, 1,
                                       dt_str(now) \o <<"<">> \o config.username
                                       \o <<">", " ">>)}
            resolved == /\ invoked' # <<>>
                        /\ pc' # "http"
                        /\ (nread' = nread + 1 \/ pc = "http")
        IN  /\ (resolved /\ res' = <<>>) =>
                 /\ wire' = wire
                 /\ pc' = "recv"
                 /\ echoes = {}
            /\ (resolved /\ res' # <<>>) =>
                 /\ wire' = Append(wire, encode(res'[1]))
                 /\ flushed' = flushed
                 /\ pc' = "drain"
                 /\ IF HasChatShape(res'[1])
                    THEN /\ Cardinality(echoes) = 1
                         /\ \A k \in echoes :
                              /\ new[k] = EchoEntry(res'[1])
                              /\ ~quiet => /\ k = Len(new) - 1
                                           /\ new[Len(new)]
                                                = Stderr(S_LT_SP \o res'[1])
                    ELSE echoes = {}
            /\ ~resolved =>
                 /\ echoes = {}
                 /\ pc \in {"recv", "http", "drain", "crashed"} => wire' = wire
            /\ pc = "drain" =>
                 /\ flushed = Len(wire) - 1
                 /\ diag' = diag
                 /\ (flushed' = Len(wire) /\ pc' = "recv") \/ pc' = "crashed"
            /\ pc \in {"recv", "http"} => flushed = Len(wire)
      ]_vars

\* the reply to a chat PING whose remainder holds a \r was written whole and
\* flushed, its echo entry ending before the \r; then a line matched the
\* silent rule, whose response is None, and nothing more was written
C14_Witness ==
    /\ HANDLERS = WithSilent
    /\ nread = 2
    /\ invoked = <<4>>
    /\ res = <<>>
    /\ Len(wire) = 4
    /\ flushed = 4
    /\ wire[4] = S_SEND_PREFIX \o <<"c">> \o S_SP_COLON \o S_PONG_SP
                 \o <<"x", CR, "y">> \o CRLF
    /\ \E k \in 1..Len(diag) :
         diag[k] = Stdout(dt_str(now) \o <<"<", "b", "o", "t", ">", " ">>
                          \o S_PONG_SP \o <<"x", LF>>)
    /\ pc = "recv"

\* C15 as stated: when the chat PING rule fires for a chat line, the body of
\* the line starts with 'PING', and the reply is addressed to the channel of
\* the line's own PRIVMSG command, the first ' PRIVMSG #<channel> :' of it
C15_Original ==
    (nread > 0 /\ ChatTarget(msg).ok /\ invoked = <<3>>) =>
        /\ StartsWith(ChatTarget(msg).body, 1, S_PING)
        /\ \A i \in Replies :
             StartsWith(wire[i], 1,
                        encode(S_SEND_PREFIX \o ChatTarget(msg).channel
                               \o S_SP_COLON))

\* C16: from the end of the bootstrap on, no step changes the rule table,
\* which holds the rules of pong, cmd_uptime and msg_ping in this order, or
\* one of the four fields of the configuration
C16_TableAndConfigFrozen ==
    [][ /\ pc \in {"recv", "http", "drain", "crashed"} =>
             /\ HANDLERS' = HANDLERS
             /\ HANDLERS = Registered
             /\ config'.username = config.username
             /\ config'.channel = config.channel
             /\ config'.oauth_token = config.oauth_token
             /\ config'.client_id = config.client_id
      ]_vars

\* two lines were matched and answered, the second one by the fallback for a
\* handler that raised, with the log of a verbose run
C16_Witness ==
    /\ nread = 2
    /\ ~quiet
    /\ cause = <<0, 0, 0, 1, 2>>
    /\ raised # <<>>
    /\ flushed = 5
    /\ HANDLERS = Registered
    /\ config \in Configs

\* one entry per prefix, in argument order, all bound to func; pattern(p) is
\* the pattern text of the prefix p, to which the line terminator and $ are
\* added
Block(prefixes, func, pattern(_)) ==
    [i \in 1..Len(prefixes) |->
       [pattern |-> pattern(prefixes[i]) \o <<Lit(CRLF), Eol>>, func |-> func]]

AsGiven(prefix) == prefix

\* C17: a registration call with the prefixes p1..pn and one factory adds
\* n entries, one per prefix in argument order and all bound to the factory,
\* to the end of the table, and leaves the entries before them as they were
C17_RegistrationAppends ==
    [][ /\ \A prefixes \in PrefixArgs, func \in Funcs :
             Register(prefixes, func) =>
                 HANDLERS' = HANDLERS \o Block(prefixes, func, AsGiven)
        /\ \A message_prefixes \in MessagePrefixArgs, func \in Funcs :
             RegisterMessage(message_prefixes, func) =>
                 HANDLERS' = HANDLERS
                             \o Block(message_prefixes, func, MessagePattern)
        /\ Len(HANDLERS') >= Len(HANDLERS)
        /\ SubSeq(HANDLERS', 1, Len(HANDLERS)) = HANDLERS
      ]_vars

\* after a call with one prefix, a call with the two message prefixes
\* '!uptime' and 'PING' for one factory added their two rules in this order
C17_Witness ==
    /\ pc = "import"
    /\ Len(HANDLERS) = 3
    /\ HANDLERS[1] = [pattern |-> PingPattern \o <<Lit(CRLF), Eol>>,
                      func |-> "pong"]
    /\ HANDLERS[2] = [pattern |-> MessagePattern(S_UPTIME) \o <<Lit(CRLF), Eol>>,
                      func |-> "msg_ping"]
    /\ HANDLERS[3] = [pattern |-> MessagePattern(S_PING) \o <<Lit(CRLF), Eol>>,
                      func |-> "msg_ping"]

\* C18: the step in which readline() returns no data, as it does at the end
\* of the stream, treats it as a line no rule matches: no handler is invoked,
\* nothing is written, a verbose run prints the empty line and 'UNHANDLED: ',
\* and the loop is awaiting the next read, not ended
C18_EndOfStreamKeepsReading ==
    [][ /\ (nread' = nread + 1 /\ data' = <<>>) =>
             /\ msg' = <<>>
             /\ invoked' = <<>>
             /\ res' = <<>>
             /\ wire' = wire
             /\ flushed' = flushed
             /\ pc' = "recv"
             /\ inflight' = {"read"}
             /\ diag' = diag \o (IF quiet THEN <<>>
                                  ELSE <<Stderr(S_GT_SP),
                                         Stdout(S_UNHANDLED_COLON)>>)
      ]_vars

\* readline() returned no data twice in a row, in a verbose run: only the
\* bootstrap lines are written and the next read is awaited
C18_Witness ==
    /\ ~quiet
    /\ nread = 2
    /\ data = <<>>
    /\ Len(diag) >= 4
    /\ SubSeq(diag, Len(diag) - 3, Len(diag))
         = <<Stderr(S_GT_SP), Stdout(S_UNHANDLED_COLON),
             Stderr(S_GT_SP), Stdout(S_UNHANDLED_COLON)>>
    /\ Len(wire) = 3
    /\ pc = "recv"
    /\ inflight = {"read"}

\* C19: the lines written after the three bootstrap lines are at most as
\* many as the lines read, and every line read caused at most one of them,
\* exactly one when its handler raised
C19_AtMostOneWritePerLine ==
    /\ Len(wire) <= 3 + nread
    /\ \A n \in 1..nread :
         Cardinality({i \in 1..Len(wire) : cause[i] = n}) <= 1
    /\ raised # <<>> => Cardinality(Replies) = 1
    /\ pc \in {"recv", "http", "drain"} => Len(wire) >= 3

\* of two lines read, the first caused no write and the handler of the
\* second raised: the fallback is the one line written for them
C19_Witness ==
    /\ nread = 2
    /\ raised # <<>>
    /\ cause = <<0, 0, 0, 2>>
    /\ Len(wire) = 4
    /\ flushed = 4

\* C20 as stated: every chat line whose body begins with 'PING', followed by
\* a space or not, fires the chat PING rule, and the reply is 'PONG ' and the
\* text after the first space of the body, empty when the body has no space
C20_Original ==
    (nread > 0 /\ ChatTarget(msg).ok
               /\ StartsWith(ChatTarget(msg).body, 1, S_PING)) =>
        /\ invoked = <<3>>
        /\ raised = <<>>
        /\ Replies # {}
        /\ \A i \in Replies :
             SubSeq(wire[i], FirstAt(wire[i], S_SP_COLON), Len(wire[i]))
               = encode(S_SP_COLON \o S_PONG_SP
                        \o AfterFirstSpace(ChatTarget(msg).body) \o CRLF)

====
